---- MODULE Spec2Model ----
(***************************************************************************)
(* A model of the fastboot-over-WebUSB client (class FastbootDevice) and   *)
(* of the USB transport it drives.                                         *)
(*                                                                         *)
(* JavaScript strings are sequences of UTF-16 code units (integers), byte  *)
(* arrays are sequences of integers 0..255, and null is the empty tuple    *)
(* while a present value v is the one-element tuple <<v>>.  Every await of *)
(* the source is a suspension point: the action that reaches it issues the *)
(* transport call and a later action resumes the function with the         *)
(* outcome the transport produced.                                         *)
(***************************************************************************)
EXTENDS Integers, Sequences, FiniteSets

VARIABLES
    device,                 \* this.device
    epIn,                   \* this.epIn
    epOut,                  \* this.epOut
    registeredUsbListener,  \* this._registeredUsbListener
    attached,               \* USB devices plugged in
    opened,                 \* USB devices opened by this page
    claimed,                \* USB devices whose interface 0 this page claimed
    pc,                     \* the await the running call is suspended at
    op,                     \* the public method the caller invoked last
    arg,                    \* its argument
    rethrowErrors,          \* parameter of _validateAndConnectDevice
    returnData,             \* local of readResponse
    i,                      \* local of sendRawPayload
    remainingBytes,         \* local of sendRawPayload
    chunk,                  \* local of sendRawPayload
    result,                 \* how the last call ended
    ioLog,                  \* history: transport calls and callbacks of the call
    rxLog,                  \* history: packets transferIn delivered to the call
    dataSizeWrites,         \* history: assignments to returnData.dataSize
    completions,            \* history: outcomes of the transport calls of the call
    connectSucceeded,       \* history: connect bound this.device and returned
    notified,               \* history: the listener saw the bound device leave
    callAfterNotify,        \* history: the call began after that notification
    listenerCount,          \* history: calls of navigator.usb.addEventListener
    others,                 \* the calls suspended at an await while another runs
    handler,                \* the click handler of main.js the call belongs to
    ui,                     \* the buttons and the status line of the page, and
                            \* history: the clicks on the unlock button
    payload,                \* buffer.byteLength, local of unlockBootloader
    flowLog,                \* history: the calls the handler made on the device
    caught                  \* history: the error the handler caught

vars == <<device, epIn, epOut, registeredUsbListener, attached, opened, claimed,
          pc, op, arg, rethrowErrors, returnData, i, remainingBytes, chunk,
          result, ioLog, rxLog, dataSizeWrites, completions, connectSucceeded,
          notified, callAfterNotify, listenerCount, others, handler, ui,
          payload, flowLog, caught>>

\* The fields of the object, and the count of the listeners it registered.
objVars == <<device, epIn, epOut, registeredUsbListener, listenerCount>>
\* The page of main.js and the calls that wait while another one runs.
pageVars == <<others, handler, ui, payload, flowLog, caught>>
sessionVars == <<connectSucceeded, notified>>
usbVars == <<attached, opened, claimed>>
readVars == <<returnData, rxLog, dataSizeWrites>>
sendVars == <<i, remainingBytes, chunk>>

(***************************************************************************)
(* Bounds of the model.                                                    *)
(***************************************************************************)
\* INFO packets the device sends before it ends a response
MaxInfoPackets == 3
\* full chunks in the largest payload
MaxChunks == 3
\* endpoints of the interface the discovery is run on
MaxEndpoints == 3
\* calls suspended at an await while another call runs
MaxParked == 1
\* clicks on the unlock button
MaxUnlocks == 1

(***************************************************************************)
(* Program constants.                                                      *)
(***************************************************************************)
BULK_TRANSFER_SIZE == 16384
MaxCommandLength == 64
ResponsePacketSize == 64

Null == <<>>
Some(v) == <<v>>

\* String literals of the source, as UTF-16 code units.
OKAY == <<79, 75, 65, 89>>
INFO == <<73, 78, 70, 79>>
DATA == <<68, 65, 84, 65>>
LineBreak == <<10>>

Min(a, b) == IF a < b THEN a ELSE b
Max(a, b) == IF a > b THEN a ELSE b

(***************************************************************************)
(* String.prototype.substring(start, end) and substring(start): both       *)
(* indexes are clamped to the length of the string.                        *)
(***************************************************************************)
Substring(s, start, end) ==
    LET a == Min(Max(start, 0), Len(s))
        b == Min(Max(end, 0), Len(s))
    IN  [k \in 1..(Max(a, b) - Min(a, b)) |-> s[Min(a, b) + k]]

SubstringFrom(s, start) == Substring(s, start, Len(s))

(***************************************************************************)
(* new TextDecoder().decode(bytes): UTF-8, errors replaced by U+FFFD.      *)
(* One- and two-byte forms are decoded; every other byte is an error of    *)
(* its own, which is what the decoder does for the bytes 80..C1 and        *)
(* F5..FF.  The packets of the model hold no byte E0..F4.                  *)
(***************************************************************************)
RECURSIVE Utf8Decode(_)
Utf8Decode(b) ==
    IF b = <<>> THEN <<>>
    ELSE LET h == Head(b) IN
         IF h < 128 THEN <<h>> \o Utf8Decode(Tail(b))
         ELSE IF /\ h >= 194 /\ h <= 223 /\ Len(b) >= 2
                 /\ b[2] >= 128 /\ b[2] <= 191
              THEN <<(h - 192) * 64 + (b[2] - 128)>>
                       \o Utf8Decode(SubSeq(b, 3, Len(b)))
              ELSE <<65533>> \o Utf8Decode(Tail(b))

(***************************************************************************)
(* new TextEncoder().encode(string): UTF-8 of the code points of a UTF-16  *)
(* string; a surrogate pair is one code point, a lone surrogate U+FFFD.    *)
(***************************************************************************)
IsHighSurrogate(c) == c >= 55296 /\ c <= 56319
IsLowSurrogate(c) == c >= 56320 /\ c <= 57343

RECURSIVE Utf8Encode(_)
Utf8Encode(s) ==
    IF s = <<>> THEN <<>>
    ELSE LET c == Head(s) IN
         IF c < 128 THEN <<c>> \o Utf8Encode(Tail(s))
         ELSE IF c < 2048
              THEN <<192 + (c \div 64), 128 + (c % 64)>> \o Utf8Encode(Tail(s))
         ELSE IF IsHighSurrogate(c) /\ Len(s) >= 2 /\ IsLowSurrogate(s[2])
              THEN LET cp == 65536 + (c - 55296) * 1024 + (s[2] - 56320)
                   IN  <<240 + (cp \div 262144), 128 + ((cp \div 4096) % 64),
                         128 + ((cp \div 64) % 64), 128 + (cp % 64)>>
                           \o Utf8Encode(SubSeq(s, 3, Len(s)))
         ELSE IF IsHighSurrogate(c) \/ IsLowSurrogate(c)
              THEN <<239, 191, 189>> \o Utf8Encode(Tail(s))
         ELSE <<224 + (c \div 4096), 128 + ((c \div 64) % 64), 128 + (c % 64)>>
                  \o Utf8Encode(Tail(s))

(***************************************************************************)
(* The USB devices the chooser can offer, with the endpoints of            *)
(* configurations[0].interfaces[0].alternates[0].                          *)
(***************************************************************************)
DeviceIds == {"phone", "dongle"}

Endpoint(type, direction, endpointNumber) ==
    [type |-> type, direction |-> direction, endpointNumber |-> endpointNumber]

Endpoints(d) ==
    CASE d = "phone" ->
            <<Endpoint("interrupt", "in", 3), Endpoint("bulk", "in", 1),
              Endpoint("bulk", "out", 2)>>
      [] OTHER ->
            <<Endpoint("bulk", "in", 1), Endpoint("bulk", "out", 2),
              Endpoint("bulk", "in", 3)>>

\* Commands the caller passes to runCommand.
Pad(n, c) == [k \in 1..n |-> c]

Commands ==
    { <<>>,
      <<114, 101, 98, 111, 111, 116>>,                 \* "reboot"
      Pad(MaxCommandLength - 1, 97),                   \* 63 x "a"
      Pad(MaxCommandLength, 97),                       \* 64 x "a"
      Pad(MaxCommandLength + 1, 97),                   \* 65 x "a"
      Pad(MaxCommandLength - 1, 97) \o <<233>>,        \* 63 x "a", U+00E9
      Pad(MaxCommandLength - 2, 97) \o <<55357, 56832>> \* 62 x "a", U+1F600
    }

\* The endpoints an interface may declare, and the lists of at most
\* MaxEndpoints of them.
EndpointKinds ==
    { Endpoint(type, direction, endpointNumber) :
        type \in {"bulk", "interrupt"}, direction \in {"in", "out"},
        endpointNumber \in {1, 2} }

EndpointLists ==
    UNION { [1..n -> EndpointKinds] : n \in 0..MaxEndpoints }

\* Byte lengths of the buffers the caller passes to sendRawPayload.
BufferLengths ==
    { k * BULK_TRANSFER_SIZE + d :
        k \in 0..(MaxChunks - 1), d \in {0, 1, 3616, BULK_TRANSFER_SIZE - 1} }
    \cup { MaxChunks * BULK_TRANSFER_SIZE }

\* Packets the device answers a transferIn with (at most 64 bytes each).
Packets ==
    { OKAY,
      OKAY \o <<100>>,                                 \* "OKAYd"
      INFO,
      INFO \o <<104, 195, 169>>,                       \* "INFOh", U+00E9
      DATA \o <<48, 48, 48, 48, 48, 48, 50, 97>>,      \* "DATA0000002a"
      DATA \o <<48, 120, 50, 65>>,                     \* "DATA0x2A"
      DATA,
      <<70, 65, 73, 76, 110, 111>>,                    \* "FAILno"
      <<>>,
      <<79, 75, 65>>,                                  \* "OKA"
      <<111, 107, 97, 121>>,                           \* "okay"
      <<195, 169, 79, 75, 65, 89>>,                    \* U+00E9, "OKAY"
      <<255, 73, 78, 70, 79>>                          \* byte FF, "INFO"
    }

\* The packets the device answers a call of the page of main.js with.
PagePackets ==
    { OKAY,
      INFO \o <<104, 195, 169>>,                       \* "INFOh", U+00E9
      DATA \o <<48, 48, 48, 48, 48, 48, 50, 97>>,      \* "DATA0000002a"
      DATA \o <<48, 120, 50, 65>>,                     \* "DATA0x2A"
      DATA,
      <<70, 65, 73, 76, 110, 111>>                     \* "FAILno"
    }

(***************************************************************************)
(* Errors.                                                                 *)
(***************************************************************************)
UsbError(message) == [name |-> "UsbError", message |-> message]

\* Lines 24-25 with the two fields mixed up.
FastbootErrorSwapped(status, message) ==
    [name |-> "FastbootError", status |-> message, bootloaderMessage |-> status]

FastbootError(status, message) ==
    [name |-> "FastbootError", status |-> status, bootloaderMessage |-> message]

RangeError == [name |-> "RangeError"]

\* Reading a property of null (this.device.transferOut with this.device null).
TypeError == [name |-> "TypeError"]

\* What the browser rejects a promise with.
DOMException(name) == [name |-> name]

Return(value) == [kind |-> "return", value |-> value]
Throw(error) == [kind |-> "throw", error |-> error]
Pending == [kind |-> "pending"]
Undefined == "undefined"

(***************************************************************************)
(* The transport.  A call on a device that left is rejected with           *)
(* NotFoundError, a transfer on a device that is not open and claimed, or  *)
(* on no endpoint, with InvalidStateError; any other call completes or     *)
(* fails with NetworkError.                                                *)
(***************************************************************************)
TransferOutcomes(d, endpoint) ==
    IF d \notin attached THEN {"NotFoundError"}
    ELSE IF d \notin opened \/ d \notin claimed \/ endpoint = Null
         THEN {"InvalidStateError"}
         ELSE {"ok", "NetworkError"}

SetupOutcomes(d) ==
    IF d \notin attached THEN {"NotFoundError"} ELSE {"ok", "NetworkError"}

\* The entries of ioLog.
TransferOut(endpoint, data) ==
    [kind |-> "transferOut", endpoint |-> endpoint, data |-> data]
TransferIn(endpoint, length) ==
    [kind |-> "transferIn", endpoint |-> endpoint, length |-> length]
OnProgress(num, den) == [kind |-> "onProgress", num |-> num, den |-> den]
Setup(name) == [kind |-> name]

(***************************************************************************)
(* _validateAndConnectDevice, lines 52-77: the scan of the endpoints.  The *)
(* result holds the fields as the scan leaves them, also when it throws.   *)
(***************************************************************************)
RECURSIVE ScanEndpoints(_, _, _)
ScanEndpoints(endpoints, in, out) ==
    IF endpoints = <<>>
    THEN [epIn |-> in, epOut |-> out,
          error |-> IF in = Null \/ out = Null
                    THEN Some(UsbError("Could not find the required IN and OUT endpoints"))
                    ELSE Null]
    ELSE LET endpoint == Head(endpoints) IN
         IF endpoint.type # "bulk"
         THEN ScanEndpoints(Tail(endpoints), in, out)
         ELSE IF endpoint.direction = "in"
              THEN IF in # Null
                   THEN [epIn |-> in, epOut |-> out,
                         error |-> Some(UsbError("Interface has multiple IN endpoints"))]
                   ELSE ScanEndpoints(Tail(endpoints),
                                      Some(endpoint.endpointNumber), out)
         ELSE IF endpoint.direction = "out"
              THEN IF out # Null
                   THEN [epIn |-> in, epOut |-> out,
                         error |-> Some(UsbError("Interface has multiple OUT endpoints"))]
                   ELSE ScanEndpoints(Tail(endpoints), in,
                                      Some(endpoint.endpointNumber))
         ELSE ScanEndpoints(Tail(endpoints), in, out)

\* The scan without the tests of lines 61 and 67: the last endpoint wins.
RECURSIVE ScanEndpointsLastWins(_, _, _)
ScanEndpointsLastWins(endpoints, in, out) ==
    IF endpoints = <<>>
    THEN [epIn |-> in, epOut |-> out,
          error |-> IF in = Null \/ out = Null
                    THEN Some(UsbError("Could not find the required IN and OUT endpoints"))
                    ELSE Null]
    ELSE LET endpoint == Head(endpoints) IN
         IF endpoint.type # "bulk"
         THEN ScanEndpointsLastWins(Tail(endpoints), in, out)
         ELSE IF endpoint.direction = "in"
              THEN ScanEndpointsLastWins(Tail(endpoints),
                                         Some(endpoint.endpointNumber), out)
              ELSE ScanEndpointsLastWins(Tail(endpoints), in,
                                         Some(endpoint.endpointNumber))

DiscoverEndpointsLastWins(endpoints) == ScanEndpointsLastWins(endpoints, Null, Null)

\* Lines 52-53 and the loop: both fields start as null.
DiscoverEndpoints(endpoints) == ScanEndpoints(endpoints, Null, Null)

FindEndpoints(d) == DiscoverEndpoints(Endpoints(d))

(***************************************************************************)
(* readResponse, lines 137-140 and 144-162: the fresh returnData and the   *)
(* body of the loop for one packet.  thrown holds the error of line 161.   *)
(***************************************************************************)
NewReturnData == [text |-> <<>>, dataSize |-> Null]

\* Line 152.
OkayText(text, respMessage) == text \o respMessage

\* Line 155 without the line break.
InfoTextNoBreak(text, respMessage) == text \o respMessage

\* Line 155.
InfoText(text, respMessage) == text \o respMessage \o LineBreak

ProcessPacket(rd, bytes) ==
    LET response == Utf8Decode(bytes)
        respStatus == Substring(response, 0, 4)
        respMessage == SubstringFrom(response, 4)
    IN  IF respStatus = OKAY
        THEN [returnData |-> [rd EXCEPT !.text = OkayText(@, respMessage)],
              respStatus |-> respStatus, wrote |-> 0, thrown |-> Null]
        ELSE IF respStatus = INFO
        THEN [returnData |-> [rd EXCEPT !.text = InfoText(@, respMessage)],
              respStatus |-> respStatus, wrote |-> 0, thrown |-> Null]
        ELSE IF respStatus = DATA
        THEN [returnData |-> [rd EXCEPT !.dataSize = Some(respMessage)],
              respStatus |-> respStatus, wrote |-> 1, thrown |-> Null]
        ELSE [returnData |-> rd, respStatus |-> respStatus, wrote |-> 0,
              thrown |-> Some(FastbootError(respStatus, respMessage))]

\* Line 164 with DATA taken for a packet that more packets follow.
MorePacketsAfterData(respStatus) == respStatus = INFO \/ respStatus = DATA

\* Line 164: the loop goes on after an INFO packet.
MorePackets(respStatus) == respStatus = INFO

\* Line 179 off by one.
CommandTooLongOffByOne(command) == Len(command) > MaxCommandLength + 1

\* Line 179: the check of the command.
CommandTooLong(command) == Len(command) > MaxCommandLength

\* Line 184: the packet of a command.
CommandPacket(command) == Utf8Encode(command)

(***************************************************************************)
(* sendRawPayload.  The buffer is a byte buffer of byteLength bytes, byte  *)
(* k of it being named by its offset k; buffer.slice(begin, end) is the    *)
(* run of bytes from..to-1 with both ends clamped to the buffer.           *)
(***************************************************************************)
Slice(byteLength, begin, end) ==
    LET from == Min(Max(begin, 0), byteLength)
        to == Min(Max(end, 0), byteLength)
    IN  [from |-> from, to |-> Max(to, from)]

ChunkByteLength(c) == c.to - c.from

\* Lines 205-208 with the end of the slice taken as inclusive.
NextChunkInclusiveEnd(byteLength, n) ==
    Slice(byteLength, n * BULK_TRANSFER_SIZE, (n + 1) * BULK_TRANSFER_SIZE + 1)

\* Lines 205-208.
NextChunk(byteLength, n) ==
    Slice(byteLength, n * BULK_TRANSFER_SIZE, (n + 1) * BULK_TRANSFER_SIZE)

\* Line 211 reporting the share that remains instead of the share sent.
ProgressBeforeRemaining(byteLength, remaining) == OnProgress(remaining, byteLength)

\* Line 211: the fraction passed to onProgress, as numerator and denominator.
ProgressBefore(byteLength, remaining) == OnProgress(byteLength - remaining, byteLength)

\* Line 219.
ProgressDone == OnProgress(1, 1)

\* Line 204.
LoopGoesOn(remaining) == remaining > 0

\* Line 215.
RemainingAfter(remaining, c) == remaining - ChunkByteLength(c)

(***************************************************************************)
(* The state after new FastbootDevice(), with every device plugged in.     *)
(***************************************************************************)
Init ==
    /\ device = Null
    /\ epIn = Null
    /\ epOut = Null
    /\ registeredUsbListener = FALSE
    /\ attached = DeviceIds
    /\ opened = {}
    /\ claimed = {}
    /\ pc = "idle"
    /\ op = "none"
    /\ arg = Null
    /\ rethrowErrors = FALSE
    /\ returnData = NewReturnData
    /\ i = 0
    /\ remainingBytes = 0
    /\ chunk = Slice(0, 0, 0)
    /\ result = [kind |-> "none"]
    /\ ioLog = <<>>
    /\ rxLog = <<>>
    /\ dataSizeWrites = 0
    /\ completions = <<>>
    /\ connectSucceeded = FALSE
    /\ notified = FALSE
    /\ callAfterNotify = FALSE
    /\ listenerCount = 0
    /\ others = <<>>
    /\ handler = "none"
    /\ ui = [connectDisabled |-> FALSE, unlockDisabled |-> TRUE, status |-> "",
             unlocks |-> 0]
    /\ payload = 0
    /\ flowLog = <<>>
    /\ caught = Null

\* The caller invokes a method when no call of its is in progress.
BeginCall(name, a) ==
    /\ pc = "idle"
    /\ op' = name
    /\ arg' = a
    /\ completions' = <<>>
    /\ callAfterNotify' = notified

\* The locals of the calls that ended are gone.
NoReadFrame ==
    /\ returnData' = NewReturnData
    /\ rxLog' = <<>>
    /\ dataSizeWrites' = 0

NoSendFrame ==
    /\ i' = 0
    /\ remainingBytes' = 0
    /\ chunk' = Slice(0, 0, 0)

\* A call ends: it returns or throws.
EndCall(r) ==
    /\ result' = r
    /\ pc' = "idle"

\* The transport completes the pending call with outcome o.
Completes(o) == completions' = Append(completions, o)

\* Lines 137-140 with the accumulator kept from the call before.
EnterReadResponseStale(log) ==
    /\ returnData' = returnData
    /\ rxLog' = <<>>
    /\ dataSizeWrites' = 0
    /\ IF device = Null
       THEN ioLog' = log /\ EndCall(Throw(TypeError))
       ELSE /\ ioLog' = Append(log, TransferIn(epIn, ResponsePacketSize))
            /\ result' = Pending
            /\ pc' = "transferIn"

(***************************************************************************)
(* readResponse, from its entry to the first await (lines 137-143).        *)
(***************************************************************************)
EnterReadResponse(log) ==
    /\ returnData' = NewReturnData
    /\ rxLog' = <<>>
    /\ dataSizeWrites' = 0
    /\ IF device = Null
       THEN ioLog' = log /\ EndCall(Throw(TypeError))
       ELSE /\ ioLog' = Append(log, TransferIn(epIn, ResponsePacketSize))
            /\ result' = Pending
            /\ pc' = "transferIn"

CallReadResponse ==
    /\ BeginCall("readResponse", Null)
    /\ EnterReadResponse(<<>>)
    /\ NoSendFrame
    /\ UNCHANGED <<objVars, usbVars, sessionVars, rethrowErrors>>

\* Line 143: a rejected transferIn ends readResponse with the rejection.
ReadFails(o) ==
    /\ EndCall(Throw(DOMException(o)))
    /\ UNCHANGED <<readVars, ioLog>>

(***************************************************************************)
(* readResponse resumes with the outcome of transferIn (lines 143-166).    *)
(***************************************************************************)
TransferInDone ==
    /\ pc = "transferIn"
    /\ \E o \in TransferOutcomes(device[1], epIn) :
         /\ Completes(o)
         /\ IF o = "ok"
            THEN \E p \in (IF handler = "none" THEN Packets ELSE PagePackets) :
                   LET r == ProcessPacket(returnData, p) IN
                   /\ MorePackets(r.respStatus) => Len(rxLog) < MaxInfoPackets
                   /\ rxLog' = Append(rxLog, p)
                   /\ returnData' = r.returnData
                   /\ dataSizeWrites' = dataSizeWrites + r.wrote
                   /\ IF r.thrown # Null
                      THEN ioLog' = ioLog /\ EndCall(Throw(r.thrown[1]))
                      ELSE IF MorePackets(r.respStatus)
                           THEN /\ ioLog' = Append(ioLog,
                                       TransferIn(epIn, ResponsePacketSize))
                                /\ UNCHANGED <<result, pc>>
                           ELSE ioLog' = ioLog /\ EndCall(Return(r.returnData))
            ELSE ReadFails(o)
    /\ UNCHANGED <<objVars, usbVars, sessionVars, sendVars, op, arg,
                   rethrowErrors, callAfterNotify>>

(***************************************************************************)
(* runCommand, from its entry to the await of transferOut (lines 179-185). *)
(***************************************************************************)
RunCommand(command) ==
    /\ BeginCall("runCommand", [command |-> command])
    /\ IF CommandTooLong(command)
       THEN ioLog' = <<>> /\ EndCall(Throw(RangeError))
       ELSE IF device = Null
            THEN ioLog' = <<>> /\ EndCall(Throw(TypeError))
            ELSE /\ ioLog' = <<TransferOut(epOut, CommandPacket(command))>>
                 /\ result' = Pending
                 /\ pc' = "cmdTransferOut"
    /\ NoReadFrame
    /\ NoSendFrame
    /\ UNCHANGED <<objVars, usbVars, sessionVars, rethrowErrors>>

CallRunCommand == \E command \in Commands : RunCommand(command)

\* Line 185 with the write tried again after a rejection.
CommandRetries(o) ==
    /\ ioLog' = Append(ioLog, TransferOut(epOut, CommandPacket(arg.command)))
    /\ UNCHANGED <<readVars, result, pc>>

\* Line 185: a rejected transferOut ends runCommand with the rejection.
CommandFails(o) ==
    /\ EndCall(Throw(DOMException(o)))
    /\ UNCHANGED <<readVars, ioLog>>

(***************************************************************************)
(* runCommand resumes with the outcome of transferOut (lines 185-188).     *)
(***************************************************************************)
CommandTransferOutDone ==
    /\ pc = "cmdTransferOut"
    /\ \E o \in TransferOutcomes(device[1], epOut) :
         /\ Completes(o)
         /\ IF o = "ok"
            THEN EnterReadResponse(ioLog)
            ELSE CommandFails(o)
    /\ UNCHANGED <<objVars, usbVars, sessionVars, sendVars, op, arg,
                   rethrowErrors, callAfterNotify>>

(***************************************************************************)
(* sendRawPayload: the test of the loop and what follows it up to the next *)
(* await or the return (lines 204-213 and 219).                            *)
(***************************************************************************)
SendLoop(byteLength, n, remaining, log) ==
    /\ i' = n
    /\ remainingBytes' = remaining
    /\ IF LoopGoesOn(remaining)
       THEN LET c == NextChunk(byteLength, n)
                log1 == Append(log, ProgressBefore(byteLength, remaining))
            IN  /\ chunk' = c
                /\ IF device = Null
                   THEN ioLog' = log1 /\ EndCall(Throw(TypeError))
                   ELSE /\ ioLog' = Append(log1, TransferOut(epOut, c))
                        /\ result' = Pending
                        /\ pc' = "chunkTransferOut"
       ELSE /\ chunk' = chunk
            /\ ioLog' = Append(log, ProgressDone)
            /\ EndCall(Return(Undefined))

SendRawPayload(byteLength) ==
    /\ BeginCall("sendRawPayload", [byteLength |-> byteLength])
    /\ SendLoop(byteLength, 0, byteLength, <<>>)
    /\ NoReadFrame
    /\ UNCHANGED <<objVars, usbVars, sessionVars, rethrowErrors>>

CallSendRawPayload == \E byteLength \in BufferLengths : SendRawPayload(byteLength)

\* Line 213 with the rejection swallowed and the loop going on.
ChunkFailureSkipped(o) ==
    SendLoop(arg.byteLength, i + 1, RemainingAfter(remainingBytes, chunk), ioLog)

\* Line 213: a rejected transferOut ends sendRawPayload with the rejection.
ChunkFails(o) ==
    /\ EndCall(Throw(DOMException(o)))
    /\ UNCHANGED <<sendVars, ioLog>>

\* sendRawPayload resumes with the outcome of transferOut (lines 213-217).
ChunkTransferOutDone ==
    /\ pc = "chunkTransferOut"
    /\ \E o \in TransferOutcomes(device[1], epOut) :
         /\ Completes(o)
         /\ IF o = "ok"
            THEN SendLoop(arg.byteLength, i + 1,
                          RemainingAfter(remainingBytes, chunk), ioLog)
            ELSE ChunkFails(o)
    /\ UNCHANGED <<objVars, usbVars, sessionVars, readVars, op, arg,
                   rethrowErrors, callAfterNotify>>

(***************************************************************************)
(* connect, up to the await of requestDevice (line 106).                   *)
(***************************************************************************)
CallConnect ==
    /\ BeginCall("connect", Null)
    /\ ioLog' = <<Setup("requestDevice")>>
    /\ result' = Pending
    /\ pc' = "requestDevice"
    /\ NoReadFrame
    /\ NoSendFrame
    /\ UNCHANGED <<objVars, usbVars, sessionVars, rethrowErrors>>

\* Line 117 with the test of the flag left out: the listener is added
\* whether the flag is set or not.
ListenerToAddAlways == IF registeredUsbListener THEN 1 ELSE 1

\* Line 117: the listener is added when the flag is not set.

ListenerToAdd == IF registeredUsbListener THEN 0 ELSE 1

\* Lines 92-96 with the flag ignored.
CatchSetupErrorRethrows(o) == EndCall(Throw(DOMException(o)))

\* Lines 92-96: the catch around open, reset, selectConfiguration, claimInterface.
CatchSetupError(o) ==
    IF rethrowErrors
    THEN EndCall(Throw(DOMException(o)))
    ELSE EndCall(Return(Undefined))

(***************************************************************************)
(* connect resumes with the device the user chose, or with the rejection   *)
(* of the chooser; it registers the listener and runs                      *)
(* _validateAndConnectDevice(true) up to the await of open (lines 106-127  *)
(* and 52-82).                                                             *)
(***************************************************************************)
RequestDeviceDone ==
    /\ pc = "requestDevice"
    /\ \/ /\ Completes("NotFoundError")
          /\ EndCall(Throw(DOMException("NotFoundError")))
          /\ UNCHANGED <<objVars, sessionVars, rethrowErrors, ioLog>>
       \/ \E d \in attached :
            LET found == FindEndpoints(d)
                log1 == IF ListenerToAdd = 0
                        THEN ioLog
                        ELSE Append(ioLog, Setup("addEventListener"))
            IN  /\ Completes("ok")
                /\ device' = Some(d)
                /\ connectSucceeded' = FALSE
                /\ notified' = FALSE
                /\ registeredUsbListener' = TRUE
                /\ listenerCount' = listenerCount + ListenerToAdd
                /\ rethrowErrors' = TRUE
                /\ epIn' = found.epIn
                /\ epOut' = found.epOut
                /\ IF found.error # Null
                   THEN ioLog' = log1 /\ EndCall(Throw(found.error[1]))
                   ELSE /\ ioLog' = Append(log1, Setup("open"))
                        /\ result' = result
                        /\ pc' = "open"
    /\ UNCHANGED <<usbVars, readVars, sendVars, op, arg, callAfterNotify>>

\* Line 82 resumes: open completed or failed; line 85 calls reset.
OpenDone ==
    /\ pc = "open"
    /\ \E o \in SetupOutcomes(device[1]) :
         /\ Completes(o)
         /\ IF o = "ok"
            THEN /\ opened' = opened \cup {device[1]}
                 /\ ioLog' = Append(ioLog, Setup("reset"))
                 /\ pc' = "reset"
                 /\ result' = result
            ELSE /\ CatchSetupError(o)
                 /\ UNCHANGED <<opened, ioLog>>
    /\ UNCHANGED <<objVars, sessionVars, attached, claimed, readVars, sendVars,
                   op, arg, rethrowErrors, callAfterNotify>>

\* Line 85 without the try of lines 84-88: a failure of reset ends the setup.
ResetFailureAborts ==
    /\ pc = "reset"
    /\ \E o \in SetupOutcomes(device[1]) :
         /\ Completes(o)
         /\ IF o = "ok"
            THEN /\ ioLog' = Append(ioLog, Setup("selectConfiguration"))
                 /\ pc' = "selectConfiguration"
                 /\ result' = result
            ELSE /\ CatchSetupError(o)
                 /\ UNCHANGED ioLog
    /\ UNCHANGED <<objVars, sessionVars, usbVars, readVars, sendVars, op, arg,
                   rethrowErrors, callAfterNotify>>

\* Line 85 resumes: a failure of reset is caught at line 86; line 90 follows.
ResetDone ==
    /\ pc = "reset"
    /\ \E o \in SetupOutcomes(device[1]) :
         /\ Completes(o)
         /\ ioLog' = Append(ioLog, Setup("selectConfiguration"))
         /\ pc' = "selectConfiguration"
    /\ UNCHANGED <<objVars, sessionVars, usbVars, readVars, sendVars, op, arg,
                   result, rethrowErrors, callAfterNotify>>

\* Line 90 resumes; line 91 calls claimInterface.
SelectConfigurationDone ==
    /\ pc = "selectConfiguration"
    /\ \E o \in SetupOutcomes(device[1]) :
         /\ Completes(o)
         /\ IF o = "ok"
            THEN /\ ioLog' = Append(ioLog, Setup("claimInterface"))
                 /\ pc' = "claimInterface"
                 /\ result' = result
            ELSE /\ CatchSetupError(o)
                 /\ UNCHANGED ioLog
    /\ UNCHANGED <<objVars, sessionVars, usbVars, readVars, sendVars, op, arg,
                   rethrowErrors, callAfterNotify>>

\* Line 91 resumes; _validateAndConnectDevice and connect return.
ClaimInterfaceDone ==
    /\ pc = "claimInterface"
    /\ \E o \in SetupOutcomes(device[1]) :
         /\ Completes(o)
         /\ IF o = "ok"
            THEN /\ claimed' = claimed \cup {device[1]}
                 /\ connectSucceeded' = TRUE
                 /\ EndCall(Return(Undefined))
            ELSE /\ CatchSetupError(o)
                 /\ UNCHANGED <<claimed, connectSucceeded>>
    /\ UNCHANGED <<objVars, notified, attached, opened, readVars, sendVars, op,
                   arg, ioLog, rethrowErrors, callAfterNotify>>

(***************************************************************************)
(* A device is unplugged.  The browser fires "disconnect"; the listener of *)
(* lines 118-122, when registered, compares the device and logs.  It       *)
(* writes no field of the object.                                          *)
(***************************************************************************)
ListenerSees(d) == registeredUsbListener /\ device = Some(d)

Disconnect ==
    \E d \in attached :
        /\ attached' = attached \ {d}
        /\ opened' = opened \ {d}
        /\ claimed' = claimed \ {d}
        /\ notified' = (notified \/ ListenerSees(d))
        /\ UNCHANGED <<objVars, pc, op, arg, rethrowErrors, readVars, sendVars,
                       result, ioLog, completions, connectSucceeded,
                       callAfterNotify>>

\* One caller, one call at a time: the page of main.js is not involved.
Next ==
    \/ CallConnect /\ UNCHANGED pageVars
    \/ RequestDeviceDone /\ UNCHANGED pageVars
    \/ OpenDone /\ UNCHANGED pageVars
    \/ ResetDone /\ UNCHANGED pageVars
    \/ SelectConfigurationDone /\ UNCHANGED pageVars
    \/ ClaimInterfaceDone /\ UNCHANGED pageVars
    \/ CallRunCommand /\ UNCHANGED pageVars
    \/ CommandTransferOutDone /\ UNCHANGED pageVars
    \/ CallReadResponse /\ UNCHANGED pageVars
    \/ TransferInDone /\ UNCHANGED pageVars
    \/ CallSendRawPayload /\ UNCHANGED pageVars
    \/ ChunkTransferOutDone /\ UNCHANGED pageVars
    \/ Disconnect /\ UNCHANGED pageVars

Spec == Init /\ [][Next]_vars

(***************************************************************************)
(* Vocabulary of the properties.                                           *)
(***************************************************************************)
\* The status and the message of a packet, as line 146 and 147 read them.
StatusOf(p) == Substring(Utf8Decode(p), 0, 4)
MessageOf(p) == SubstringFrom(Utf8Decode(p), 4)

\* The running or last call reads a response.
Reading == op \in {"readResponse", "runCommand"}

\* The entries of a log that are calls of kind k, in order.
OfKind(log, k) == SelectSeq(log, LAMBDA e : e.kind = k)

\* The messages of INFO packets, each followed by a line break.
RECURSIVE InfoLines(_)
InfoLines(ps) ==
    IF ps = <<>> THEN <<>>
    ELSE MessageOf(Head(ps)) \o LineBreak \o InfoLines(Tail(ps))

AllInfo(ps) == \A k \in 1..Len(ps) : StatusOf(ps[k]) = INFO

Front(ps) == SubSeq(ps, 1, Len(ps) - 1)
Last(ps) == ps[Len(ps)]

\* C1: when the packets a call read are n >= 0 INFO packets followed by one
\* OKAY packet, the call has returned a response whose text is the INFO
\* messages in arrival order, each followed by a line break, followed by the
\* OKAY message, and whose dataSize is null.
C1_InfoThenOkay ==
    (/\ Reading
     /\ rxLog # <<>>
     /\ StatusOf(Last(rxLog)) = OKAY
     /\ AllInfo(Front(rxLog)))
    => /\ pc = "idle"
       /\ result = Return([text |-> InfoLines(Front(rxLog)) \o MessageOf(Last(rxLog)),
                           dataSize |-> Null])

\* Two INFO packets, one of them with an empty message, then "OKAYd":
\* the text is "h", U+00E9, line break, line break, "d".
C1_Witness ==
    /\ op = "readResponse"
    /\ rxLog = <<INFO \o <<104, 195, 169>>, INFO, OKAY \o <<100>>>>
    /\ result = Return([text |-> <<104, 233, 10, 10, 100>>, dataSize |-> Null])

\* C2: a packet whose status is none of OKAY, INFO, DATA, after any number
\* of INFO packets, is the last packet the call reads: the call has thrown a
\* FastbootError with that packet's status and message, it returned no
\* response, and it issued no transferIn after the one that read the packet.
C2_OtherStatusFails ==
    Reading =>
        \A k \in 1..Len(rxLog) :
            StatusOf(rxLog[k]) \notin {OKAY, INFO, DATA}
            => /\ k = Len(rxLog)
               /\ AllInfo(Front(rxLog))
               /\ pc = "idle"
               /\ result = [kind |-> "throw",
                             error |-> [name |-> "FastbootError",
                                        status |-> StatusOf(rxLog[k]),
                                        bootloaderMessage |-> MessageOf(rxLog[k])]]
               /\ Len(OfKind(ioLog, "transferIn")) = k

\* An INFO packet, then "FAILno": status "FAIL", message "no".
C2_Witness ==
    /\ op = "runCommand"
    /\ rxLog = <<INFO \o <<104, 195, 169>>, <<70, 65, 73, 76, 110, 111>>>>
    /\ result.kind = "throw"
    /\ result.error.name = "FastbootError"
    /\ result.error.status = <<70, 65, 73, 76>>
    /\ result.error.bootloaderMessage = <<110, 111>>
    /\ returnData.text # <<>>

\* C3: a DATA packet is the last packet the call reads: the call has
\* returned, dataSize is that packet's message, it was assigned once during
\* the call, and the text holds the INFO lines received before the packet.
C3_DataEndsResponse ==
    Reading =>
        \A k \in 1..Len(rxLog) :
            StatusOf(rxLog[k]) = DATA
            => /\ k = Len(rxLog)
               /\ pc = "idle"
               /\ result = Return([text |-> InfoLines(Front(rxLog)),
                                   dataSize |-> Some(MessageOf(rxLog[k]))])
               /\ dataSizeWrites = 1
               /\ Len(OfKind(ioLog, "transferIn")) = k

\* An INFO packet, then "DATA0000002a".
C3_Witness ==
    /\ op = "runCommand"
    /\ rxLog = <<INFO, DATA \o <<48, 48, 48, 48, 48, 48, 50, 97>>>>
    /\ result = Return([text |-> <<10>>,
                        dataSize |-> <<<<48, 48, 48, 48, 48, 48, 50, 97>>>>])
    /\ dataSizeWrites = 1

\* A call on the session: not connect.
SessionCall == op \in {"runCommand", "readResponse", "sendRawPayload"}

\* The bulk transfers a log holds.
BulkTransfers(log) ==
    SelectSeq(log, LAMBDA e : e.kind \in {"transferIn", "transferOut"})

\* C4: after connect succeeded and the listener was notified that the bound
\* device left, every runCommand, readResponse and sendRawPayload call
\* issues no bulk transfer and fails with a UsbError.
C4_DisconnectedSessionFails ==
    (connectSucceeded /\ callAfterNotify /\ SessionCall)
    => /\ BulkTransfers(ioLog) = <<>>
       /\ pc = "idle"
       /\ result.kind = "throw"
       /\ result.error.name = "UsbError"

\* C5: runCommand with a command of more than 64 characters has thrown
\* RangeError and has issued no transport call.
C5_LongCommandRejected ==
    (op = "runCommand" /\ Len(arg.command) > 64)
    => /\ pc = "idle"
       /\ result = Throw(RangeError)
       /\ ioLog = <<>>
       /\ completions = <<>>

\* A command of 65 characters on a connected session.
C5_Witness ==
    /\ op = "runCommand"
    /\ Len(arg.command) = 65
    /\ connectSucceeded
    /\ device[1] \in claimed
    /\ result.kind = "throw"
    /\ result.error.name = "RangeError"
    /\ ioLog = <<>>

\* C6: every command packet runCommand writes to the OUT endpoint is at
\* most 64 bytes long (stated of the writes the transport carried out).
C6_CommandPacketAtMost64 ==
    (op = "runCommand" /\ completions # <<>> /\ completions[1] = "ok")
    => \A k \in 1..Len(ioLog) :
           ioLog[k].kind = "transferOut" => Len(ioLog[k].data) <= 64

\* C7: an accepted runCommand issues one transferOut with the bytes of the
\* command, as its first transport call; it issues nothing else while that
\* write is pending; when the write fails the call ends with the error of
\* the write, having issued no transferIn and no second write; when the
\* write completes the call goes on to read.
C7_OneWriteThenRead ==
    (op = "runCommand" /\ ~ (Len(arg.command) > 64) /\ device # Null)
    => /\ ioLog # <<>>
       /\ ioLog[1] = TransferOut(epOut, Utf8Encode(arg.command))
       /\ \A k \in 2..Len(ioLog) : ioLog[k].kind = "transferIn"
       /\ completions = <<>> => (Len(ioLog) = 1 /\ pc = "cmdTransferOut")
       /\ (completions # <<>> /\ completions[1] # "ok")
            => /\ Len(ioLog) = 1
               /\ Len(completions) = 1
               /\ pc = "idle"
               /\ result = Throw(DOMException(completions[1]))
       /\ (completions # <<>> /\ completions[1] = "ok")
            => (Len(ioLog) >= 2 /\ ioLog[2] = TransferIn(epIn, 64))

\* "reboot" was written to endpoint 2 of a connected device, the write
\* failed with NetworkError, and that is what the call threw.
C7_Witness ==
    /\ op = "runCommand"
    /\ connectSucceeded
    /\ ioLog = <<[kind |-> "transferOut", endpoint |-> <<2>>,
                  data |-> <<114, 101, 98, 111, 111, 116>>]>>
    /\ completions = <<"NetworkError">>
    /\ result = [kind |-> "throw", error |-> [name |-> "NetworkError"]]

\* The payloads of the transferOut calls of the log, in order.
RECURSIVE Payloads(_)
Payloads(log) ==
    IF log = <<>> THEN <<>>
    ELSE IF Head(log).kind = "transferOut"
         THEN <<Head(log).data>> \o Payloads(Tail(log))
         ELSE Payloads(Tail(log))

\* The bytes of a chunk, each named by its offset in the buffer, and the
\* bytes of a sequence of chunks put end to end.
Bytes(c) == [k \in 1..(c.to - c.from) |-> c.from + k - 1]

RECURSIVE Joined(_)
Joined(chunks) ==
    IF chunks = <<>> THEN <<>> ELSE Bytes(Head(chunks)) \o Joined(Tail(chunks))

RECURSIVE TotalLength(_)
TotalLength(chunks) ==
    IF chunks = <<>> THEN 0
    ELSE (Head(chunks).to - Head(chunks).from) + TotalLength(Tail(chunks))

CeilDiv(a, b) == (a + b - 1) \div b

SendReturned == op = "sendRawPayload" /\ pc = "idle" /\ result.kind = "return"

\* C8: the k-th transferOut of sendRawPayload carries the bytes
\* [(k-1)*C, min(k*C, L)) of the buffer, which are at least 1 and at most C
\* bytes; a transfer is issued only when the ones before it completed; and
\* when the call returns it has issued ceil(L/C) transfers whose payloads
\* put end to end are the L bytes of the buffer in order.
C8_ChunksAreWindows ==
    op = "sendRawPayload" =>
        LET L == arg.byteLength
            outs == Payloads(ioLog)
        IN  /\ \A k \in 1..Len(outs) :
                 /\ outs[k].from = (k - 1) * 16384
                 /\ outs[k].to = Min(k * 16384, L)
                 /\ outs[k].to - outs[k].from >= 1
                 /\ outs[k].to - outs[k].from <= 16384
            /\ Len(outs) <= Len(completions) + 1
            /\ SendReturned
                 => /\ Len(outs) = CeilDiv(L, 16384)
                    /\ Joined(outs) = [k \in 1..L |-> k - 1]

\* A buffer of 20000 bytes went out as 16384 bytes and then 3616 bytes.
C8_Witness ==
    /\ SendReturned
    /\ arg.byteLength = 20000
    /\ Payloads(ioLog) = <<[from |-> 0, to |-> 16384], [from |-> 16384, to |-> 20000]>>
    /\ completions = <<"ok", "ok">>

\* a <= b for two fractions onProgress was called with.
FractionLeq(a, b) ==
    IF a.den = b.den THEN a.num <= b.num ELSE a.num * b.den <= b.num * a.den

IsOne(p) == p.num = p.den

\* C9: in sendRawPayload every transferOut is preceded, immediately, by a
\* call onProgress(bytes sent so far / total bytes), and every onProgress
\* call but the last entry of the log is followed by a transferOut; the
\* values reported lie in [0, 1] and never decrease; when the call returns
\* the last call is onProgress(1.0), after the last chunk, and it is the
\* only call when the buffer is empty, with no transfer.
C9_ProgressReports ==
    op = "sendRawPayload" =>
        LET L == arg.byteLength
            reports == OfKind(ioLog, "onProgress")
        IN  /\ \A k \in 1..Len(ioLog) :
                 ioLog[k].kind = "transferOut"
                 => /\ k > 1
                    /\ ioLog[k - 1] =
                         OnProgress(TotalLength(Payloads(SubSeq(ioLog, 1, k - 1))), L)
            /\ \A k \in 1..(Len(ioLog) - 1) :
                 ioLog[k].kind = "onProgress" => ioLog[k + 1].kind = "transferOut"
            /\ \A k \in 1..Len(reports) :
                 /\ reports[k].den > 0
                 /\ reports[k].num >= 0
                 /\ reports[k].num <= reports[k].den
            /\ \A j, k \in 1..Len(reports) :
                 j < k => FractionLeq(reports[j], reports[k])
            /\ SendReturned
                 => /\ Last(ioLog) = OnProgress(1, 1)
                    /\ Len(reports) = Len(Payloads(ioLog)) + 1
                    /\ \A k \in 1..(Len(reports) - 1) : ~ IsOne(reports[k])
                    /\ L = 0 => ioLog = <<OnProgress(1, 1)>>

\* The calls of a 20000-byte send: 0/20000, the first chunk, 16384/20000,
\* the second chunk, 1.0.
C9_Witness ==
    /\ SendReturned
    /\ arg.byteLength = 20000
    /\ OfKind(ioLog, "onProgress") =
         <<[kind |-> "onProgress", num |-> 0, den |-> 20000],
           [kind |-> "onProgress", num |-> 16384, den |-> 20000],
           [kind |-> "onProgress", num |-> 1, den |-> 1]>>
    /\ ioLog[2].kind = "transferOut"
    /\ ioLog[4].kind = "transferOut"
    /\ Len(ioLog) = 5

\* C10: when the transferOut of chunk k of sendRawPayload fails, the call
\* has thrown the error of that transfer, chunk k is the last transport call
\* it made, and it has not called onProgress(1.0).
C10_FailedChunkStopsSend ==
    op = "sendRawPayload" =>
        \A k \in 1..Len(completions) :
            completions[k] # "ok"
            => /\ k = Len(completions)
               /\ pc = "idle"
               /\ result = Throw(DOMException(completions[k]))
               /\ Len(Payloads(ioLog)) = k
               /\ Last(ioLog).kind = "transferOut"
               /\ \A n \in 1..Len(ioLog) :
                    ioLog[n].kind = "onProgress" => ~ IsOne(ioLog[n])

\* The second of the three chunks of a 32769-byte buffer failed.
C10_Witness ==
    /\ op = "sendRawPayload"
    /\ arg.byteLength = 32769
    /\ completions = <<"ok", "NetworkError">>
    /\ result = [kind |-> "throw", error |-> [name |-> "NetworkError"]]
    /\ Len(Payloads(ioLog)) = 2
    /\ Len(ioLog) = 4

(***************************************************************************)
(* Endpoint discovery on its own: _validateAndConnectDevice runs lines     *)
(* 52-77 on an interface that declares any list of endpoints.              *)
(***************************************************************************)
InitDiscovery ==
    /\ device = Null
    /\ epIn = Null
    /\ epOut = Null
    /\ registeredUsbListener = FALSE
    /\ attached = DeviceIds
    /\ opened = {}
    /\ claimed = {}
    /\ pc = "discovery"
    /\ op = "_validateAndConnectDevice"
    /\ arg \in EndpointLists
    /\ rethrowErrors = TRUE
    /\ returnData = NewReturnData
    /\ i = 0
    /\ remainingBytes = 0
    /\ chunk = Slice(0, 0, 0)
    /\ result = Pending
    /\ ioLog = <<>>
    /\ rxLog = <<>>
    /\ dataSizeWrites = 0
    /\ completions = <<>>
    /\ connectSucceeded = FALSE
    /\ notified = FALSE
    /\ callAfterNotify = FALSE
    /\ listenerCount = 0
    /\ others = <<>>
    /\ handler = "none"
    /\ ui = [connectDisabled |-> FALSE, unlockDisabled |-> TRUE, status |-> "",
             unlocks |-> 0]
    /\ payload = 0
    /\ flowLog = <<>>
    /\ caught = Null

\* Lines 52-77, which no await interrupts.
Discovery ==
    /\ pc = "discovery"
    /\ LET found == DiscoverEndpoints(arg) IN
         /\ epIn' = found.epIn
         /\ epOut' = found.epOut
         /\ EndCall(IF found.error # Null
                    THEN Throw(found.error[1])
                    ELSE Return(Undefined))
    /\ UNCHANGED <<device, registeredUsbListener, listenerCount, usbVars,
                   sessionVars, readVars, sendVars, op, arg, rethrowErrors,
                   ioLog, completions, callAfterNotify, pageVars>>

NextDiscovery == Discovery

SpecDiscovery == InitDiscovery /\ [][NextDiscovery]_vars

\* The bulk endpoints of one direction, in the order of the list.
BulkEndpoints(endpoints, direction) ==
    SelectSeq(endpoints,
              LAMBDA e : e.type = "bulk" /\ e.direction = direction)

\* Where the list holds its second bulk endpoint of a direction; past its
\* end when it holds fewer than two.
SecondBulk(endpoints, direction) ==
    LET Is(k) == /\ endpoints[k].type = "bulk"
                 /\ endpoints[k].direction = direction
        Seconds == { k \in 1..Len(endpoints) :
                       /\ Is(k)
                       /\ Cardinality({ j \in 1..(k - 1) : Is(j) }) = 1 }
    IN  IF Seconds = {} THEN Len(endpoints) + 1
        ELSE CHOOSE k \in Seconds : TRUE

DiscoveryDone == op = "_validateAndConnectDevice" /\ pc = "idle"

\* C11: endpoint discovery succeeds exactly when the list holds one bulk IN
\* and one bulk OUT endpoint, whatever else it holds, and leaves their
\* numbers in epIn and epOut; it throws "multiple IN" ("multiple OUT") when
\* the second bulk IN (OUT) endpoint comes first, and "not found" when the
\* list ends with no duplicate and a direction missing.
C11_EndpointDiscovery ==
    DiscoveryDone =>
        LET ins == BulkEndpoints(arg, "in")
            outs == BulkEndpoints(arg, "out")
            secondIn == SecondBulk(arg, "in")
            secondOut == SecondBulk(arg, "out")
        IN  /\ (result.kind = "return") <=> (Len(ins) = 1 /\ Len(outs) = 1)
            /\ result.kind = "return" =>
                  /\ epIn = Some(ins[1].endpointNumber)
                  /\ epOut = Some(outs[1].endpointNumber)
            /\ result.kind = "throw" =>
                  result.error =
                    IF secondIn < secondOut
                    THEN UsbError("Interface has multiple IN endpoints")
                    ELSE IF secondOut < secondIn
                    THEN UsbError("Interface has multiple OUT endpoints")
                    ELSE UsbError("Could not find the required IN and OUT endpoints")

\* Discovery succeeded on a list with an endpoint that is not bulk.
C11_Witness ==
    /\ DiscoveryDone
    /\ result.kind = "return"
    /\ Len(arg) = 3
    /\ arg[1].type = "interrupt"
    /\ epIn = Some(2)
    /\ epOut = Some(1)

\* The calls of a log that the transport completes: all but the
\* registration of the listener, which returns at once.
SetupCalls(log) == SelectSeq(log, LAMBDA e : e.kind # "addEventListener")

\* C12: in connect, when open succeeded and reset failed,
\* selectConfiguration is called next and claimInterface after it succeeded,
\* and connect returns when both succeeded.
C12_ResetFailureSwallowed ==
    LET calls == SetupCalls(ioLog) IN
    (/\ op = "connect"
     /\ Len(completions) >= 3
     /\ completions[2] = "ok"
     /\ completions[3] # "ok") =>
        /\ Len(calls) >= 4
        /\ calls[2] = Setup("open")
        /\ calls[3] = Setup("reset")
        /\ calls[4] = Setup("selectConfiguration")
        /\ (Len(completions) >= 4 /\ completions[4] = "ok") =>
              (Len(calls) = 5 /\ calls[5] = Setup("claimInterface"))
        /\ (Len(completions) = 5 /\ completions[4] = "ok"
               /\ completions[5] = "ok") =>
              (pc = "idle" /\ result = [kind |-> "return", value |-> Undefined])

\* connect returned although reset failed.
C12_Witness ==
    /\ op = "connect"
    /\ completions = <<"ok", "ok", "NetworkError", "ok", "ok">>
    /\ pc = "idle"
    /\ result.kind = "return"

(***************************************************************************)
(* Calls that overlap.  A call suspended at an await leaves the thread to  *)
(* other tasks: its frame (the variables of one call) is set aside in      *)
(* others, and taken up again when the thread is free.  The fields of the  *)
(* object and the devices are shared by all frames.                        *)
(***************************************************************************)
Frame ==
    [pc |-> pc, op |-> op, arg |-> arg, rethrowErrors |-> rethrowErrors,
     returnData |-> returnData, i |-> i, remainingBytes |-> remainingBytes,
     chunk |-> chunk, result |-> result, ioLog |-> ioLog, rxLog |-> rxLog,
     dataSizeWrites |-> dataSizeWrites, completions |-> completions,
     callAfterNotify |-> callAfterNotify, handler |-> handler,
     payload |-> payload, flowLog |-> flowLog, caught |-> caught]

\* The frame of a thread that runs no call.
IdleFrame ==
    [pc |-> "idle", op |-> "none", arg |-> Null, rethrowErrors |-> FALSE,
     returnData |-> NewReturnData, i |-> 0, remainingBytes |-> 0,
     chunk |-> Slice(0, 0, 0), result |-> [kind |-> "none"], ioLog |-> <<>>,
     rxLog |-> <<>>, dataSizeWrites |-> 0, completions |-> <<>>,
     callAfterNotify |-> FALSE, handler |-> "none", payload |-> 0,
     flowLog |-> <<>>, caught |-> Null]

LoadFrame(f) ==
    /\ pc' = f.pc
    /\ op' = f.op
    /\ arg' = f.arg
    /\ rethrowErrors' = f.rethrowErrors
    /\ returnData' = f.returnData
    /\ i' = f.i
    /\ remainingBytes' = f.remainingBytes
    /\ chunk' = f.chunk
    /\ result' = f.result
    /\ ioLog' = f.ioLog
    /\ rxLog' = f.rxLog
    /\ dataSizeWrites' = f.dataSizeWrites
    /\ completions' = f.completions
    /\ callAfterNotify' = f.callAfterNotify
    /\ handler' = f.handler
    /\ payload' = f.payload
    /\ flowLog' = f.flowLog
    /\ caught' = f.caught

\* The running call waits at an await; no handler has a step to take.
Suspended == pc # "idle"
Inactive == pc = "idle" /\ handler = "none"

RemoveAt(seq, k) == SubSeq(seq, 1, k - 1) \o SubSeq(seq, k + 1, Len(seq))

\* The suspended call is set aside: the thread is free for a new task.
Park ==
    /\ Suspended
    /\ Len(others) < MaxParked
    /\ others' = Append(others, Frame)
    /\ LoadFrame(IdleFrame)
    /\ UNCHANGED <<objVars, usbVars, sessionVars, ui>>

\* The free thread takes up a call that was set aside.
Resume ==
    /\ Inactive
    /\ \E k \in DOMAIN others :
         /\ LoadFrame(others[k])
         /\ others' = RemoveAt(others, k)
    /\ UNCHANGED <<objVars, usbVars, sessionVars, ui>>

\* The thread leaves one suspended call for another.
Switch ==
    /\ Suspended
    /\ \E k \in DOMAIN others :
         /\ LoadFrame(others[k])
         /\ others' = [others EXCEPT ![k] = Frame]
    /\ UNCHANGED <<objVars, usbVars, sessionVars, ui>>

(***************************************************************************)
(* _validateAndConnectDevice called on its own, with either value of the   *)
(* flag, up to the await of open (lines 52-82).                            *)
(***************************************************************************)
CallValidate ==
    \E flag \in BOOLEAN :
        /\ BeginCall("_validateAndConnectDevice", flag)
        /\ rethrowErrors' = flag
        /\ IF device = Null
           THEN /\ epIn' = Null
                /\ epOut' = Null
                /\ ioLog' = <<>>
                /\ EndCall(Throw(TypeError))
           ELSE LET found == FindEndpoints(device[1]) IN
                /\ epIn' = found.epIn
                /\ epOut' = found.epOut
                /\ IF found.error # Null
                   THEN ioLog' = <<>> /\ EndCall(Throw(found.error[1]))
                   ELSE /\ ioLog' = <<Setup("open")>>
                        /\ result' = Pending
                        /\ pc' = "open"
        /\ NoReadFrame
        /\ NoSendFrame
        /\ UNCHANGED <<device, registeredUsbListener, listenerCount, usbVars,
                       sessionVars>>

\* Calls of connect and of _validateAndConnectDevice, which may overlap, on
\* devices that stay plugged in.
NextSetup ==
    \/ CallConnect /\ UNCHANGED pageVars
    \/ CallValidate /\ UNCHANGED pageVars
    \/ RequestDeviceDone /\ UNCHANGED pageVars
    \/ OpenDone /\ UNCHANGED pageVars
    \/ ResetDone /\ UNCHANGED pageVars
    \/ SelectConfigurationDone /\ UNCHANGED pageVars
    \/ ClaimInterfaceDone /\ UNCHANGED pageVars
    \/ Park
    \/ Resume
    \/ Switch

SpecSetup == Init /\ [][NextSetup]_vars

\* The setup call the last completion belongs to failed, and it is not reset.
SetupFailed ==
    /\ op \in {"connect", "_validateAndConnectDevice"}
    /\ completions # <<>>
    /\ completions[Len(completions)] # "ok"
    /\ Len(SetupCalls(ioLog)) >= Len(completions)
    /\ SetupCalls(ioLog)[Len(completions)].kind
         \in {"open", "selectConfiguration", "claimInterface"}

\* C13: when open, selectConfiguration or claimInterface fails, no later
\* step is attempted; connect, which passes the flag as true, throws the
\* failure, and so does _validateAndConnectDevice(true), while
\* _validateAndConnectDevice(false) returns normally.
C13_SetupFailureByFlag ==
    SetupFailed =>
        LET n == Len(completions)
            thrown == [kind |-> "throw", error |-> [name |-> completions[n]]]
            returned == [kind |-> "return", value |-> Undefined]
        IN  /\ pc = "idle"
            /\ Len(SetupCalls(ioLog)) = n
            /\ op = "connect" => result = thrown
            /\ op = "_validateAndConnectDevice" =>
                  result = IF arg THEN thrown ELSE returned

\* _validateAndConnectDevice(false) returned although claimInterface failed.
C13_Witness ==
    /\ op = "_validateAndConnectDevice"
    /\ arg = FALSE
    /\ completions = <<"ok", "ok", "ok", "NetworkError">>
    /\ result.kind = "return"
    /\ pc = "idle"

\* C20: over all calls of connect, failing and overlapping ones included,
\* addEventListener is called at most once, and it has been called whenever
\* a connect got a device from the chooser, so before that connect looked
\* at the endpoints: in the log of a connect it comes right after
\* requestDevice.
C20_ListenerRegisteredOnce ==
    /\ listenerCount <= 1
    /\ registeredUsbListener <=> listenerCount = 1
    /\ device # Null => listenerCount = 1
    /\ \A k \in DOMAIN ioLog :
         ioLog[k] = Setup("addEventListener") =>
            /\ k = 2
            /\ ioLog[1] = Setup("requestDevice")

\* Two calls of connect overlap, both past the chooser; the listener was
\* registered once.
C20_Witness ==
    /\ listenerCount = 1
    /\ op = "connect"
    /\ pc = "claimInterface"
    /\ Len(ioLog) = 5
    /\ others # <<>>
    /\ others[1].op = "connect"
    /\ others[1].pc = "open"
    /\ Len(others[1].ioLog) = 3

\* What a call that read the packets ps, the last of which ended the
\* response, ends with: a function of ps alone.
ResponseTo(ps) ==
    LET status == StatusOf(Last(ps))
        message == MessageOf(Last(ps))
    IN  IF status = OKAY
        THEN [kind |-> "return",
              value |-> [text |-> InfoLines(Front(ps)) \o message,
                         dataSize |-> Null]]
        ELSE IF status = DATA
        THEN [kind |-> "return",
              value |-> [text |-> InfoLines(Front(ps)),
                         dataSize |-> Some(message)]]
        ELSE [kind |-> "throw",
              error |-> [name |-> "FastbootError", status |-> status,
                         bootloaderMessage |-> message]]

\* The last transferIn of the call delivered a packet.
ReadEnded ==
    /\ pc = "idle"
    /\ rxLog # <<>>
    /\ completions # <<>>
    /\ completions[Len(completions)] = "ok"

\* C15: whatever calls came before, a call that reads a response starts
\* with text empty and dataSize null, accumulates the packets it read itself
\* and nothing else, and ends with a result that is a function of those
\* packets alone.
C15_FreshAccumulation ==
    Reading =>
        /\ pc = "transferIn" =>
              returnData = [text |-> InfoLines(rxLog), dataSize |-> Null]
        /\ ReadEnded => result = ResponseTo(rxLog)

\* readResponse called on a connected session returned the text of the one
\* packet it read.
C15_Witness ==
    /\ op = "readResponse"
    /\ connectSucceeded
    /\ ReadEnded
    /\ rxLog = <<OKAY \o <<100>>>>
    /\ result = [kind |-> "return",
                  value |-> [text |-> <<100>>, dataSize |-> Null]]

(***************************************************************************)
(* The transport completes every transferIn it was given: the pending read *)
(* of a call is not left waiting for ever.  The device ends a response     *)
(* after at most MaxInfoPackets INFO packets.                              *)
(***************************************************************************)
SpecLive == Spec /\ WF_completions(TransferInDone /\ UNCHANGED pageVars)

\* The transferIn calls the running or last call issued.
ReadsIssued == OfKind(ioLog, "transferIn")

\* Each transferIn asks for 64 bytes, one is issued per packet and one more
\* while a read is pending or after a read failed, and only the last packet
\* read may have a status other than INFO.
OneReadPerPacket ==
    Reading =>
        /\ \A k \in DOMAIN ReadsIssued : ReadsIssued[k].length = 64
        /\ AllInfo(Front(rxLog))
        /\ pc = "transferIn" =>
              (AllInfo(rxLog) /\ Len(ReadsIssued) = Len(rxLog) + 1)
        /\ ReadEnded =>
              /\ StatusOf(Last(rxLog)) # INFO
              /\ Len(ReadsIssued) = Len(rxLog)

\* C16: readResponse issues one 64-byte transferIn per packet and stops at
\* the first packet whose status is not INFO, so that the transferIn calls
\* are as many as the packets up to that one and no packet after it is
\* read; and when every read completes and the device ends its response,
\* the call ends.
C16_ReadsUntilFirstNonInfo ==
    /\ []OneReadPerPacket
    /\ (Reading /\ pc = "transferIn") ~> (pc = "idle")

\* readResponse ended at the third packet, the first that is not INFO,
\* after three reads.
C16_Witness ==
    /\ op = "readResponse"
    /\ pc = "idle"
    /\ Len(rxLog) = 3
    /\ StatusOf(rxLog[1]) = INFO
    /\ StatusOf(rxLog[2]) = INFO
    /\ StatusOf(rxLog[3]) = DATA
    /\ Len(ReadsIssued) = 3
    /\ result.kind = "return"

\* C19: a call of runCommand, readResponse or sendRawPayload issues a bulk
\* transfer only when the connect that bound the device returned, with epIn
\* and epOut holding endpoint numbers; after a connect that failed no call
\* reaches the transport.
C19_TransfersOnlyOnSession ==
    (/\ op \in {"runCommand", "readResponse", "sendRawPayload"}
     /\ BulkTransfers(ioLog) # <<>>)
    => /\ connectSucceeded
       /\ epIn # Null
       /\ epOut # Null

(***************************************************************************)
(* The page of main.js: the two click handlers and the values they         *)
(* compute.                                                                *)
(***************************************************************************)
\* "oem get_identifier_token", "download:", "flashing unlock_bootloader"
GetIdentifierToken ==
    <<111, 101, 109, 32, 103, 101, 116, 95, 105, 100, 101, 110, 116, 105,
      102, 105, 101, 114, 95, 116, 111, 107, 101, 110>>
DownloadPrefix == <<100, 111, 119, 110, 108, 111, 97, 100, 58>>
FlashingUnlock ==
    <<102, 108, 97, 115, 104, 105, 110, 103, 32, 117, 110, 108, 111, 99, 107,
      95, 98, 111, 111, 116, 108, 111, 97, 100, 101, 114>>
FAIL == <<70, 65, 73, 76>>

\* 64 * 2, the digits of the identifier; the digits of the transfer size.
IdentifierDigits == 128
XferHexDigits == 8

\* Byte lengths of the signature the signer returns.
PayloadLengths == {42, 256}

\* text.split('\n')
RECURSIVE Split(_)
Split(text) ==
    LET breaks == { k \in 1..Len(text) : text[k] = 10 } IN
    IF breaks = {} THEN <<text>>
    ELSE LET k == CHOOSE b \in breaks : \A c \in breaks : b <= c
         IN  <<SubSeq(text, 1, k - 1)>>
                 \o Split(SubSeq(text, k + 1, Len(text)))

\* Line 28: the token followed by the zeros that fill it to 128 digits.
IdentifierOf(token) ==
    token \o SubstringFrom(Pad(IdentifierDigits, 48), Len(token))

\* n.toString(16), s.padStart(length, c)
HexDigit(d) == IF d < 10 THEN 48 + d ELSE 87 + d

RECURSIVE ToString16(_)
ToString16(n) ==
    IF n < 16 THEN <<HexDigit(n)>>
    ELSE ToString16(n \div 16) \o <<HexDigit(n % 16)>>

PadStart(str, length, c) ==
    IF Len(str) >= length THEN str ELSE Pad(length - Len(str), c) \o str

\* Line 46.
XferHex(byteLength) == PadStart(ToString16(byteLength), XferHexDigits, 48)

\* parseInt(str, 16): white space, a sign and 0x are skipped, the longest
\* run of hexadecimal digits is read, and what follows it is ignored; with
\* no digit the result is NaN, here Null.
IsWhiteSpace(c) == c \in {9, 10, 11, 12, 13, 32, 160, 65279}

RECURSIVE TrimStart(_)
TrimStart(str) ==
    IF str # <<>> /\ IsWhiteSpace(Head(str)) THEN TrimStart(Tail(str)) ELSE str

DigitValue(c) ==
    IF c \in 48..57 THEN c - 48
    ELSE IF c \in 97..102 THEN c - 87
    ELSE IF c \in 65..70 THEN c - 55
    ELSE 16

RECURSIVE ParseDigits(_, _, _)
ParseDigits(str, value, seen) ==
    IF str = <<>> \/ DigitValue(Head(str)) >= 16
    THEN IF seen THEN Some(value) ELSE Null
    ELSE ParseDigits(Tail(str), value * 16 + DigitValue(Head(str)), TRUE)

ParseInt16(str) ==
    LET t == TrimStart(str)
        signed == t # <<>> /\ t[1] \in {43, 45}
        u == IF signed THEN Tail(t) ELSE t
        v == IF Len(u) >= 2 /\ u[1] = 48 /\ u[2] \in {88, 120}
             THEN SubSeq(u, 3, Len(u))
             ELSE u
        r == ParseDigits(v, 0, FALSE)
    IN  IF r # Null /\ signed /\ t[1] = 45 THEN Some(0 - r[1]) ELSE r

\* Lines 56-68 with the comparison of the sizes left out.
SizeAcceptedUnchecked(resp, byteLength) == resp.dataSize # Null

\* Lines 56-68: the response to download carries a size, and it is the
\* byte length of the payload.
SizeAccepted(resp, byteLength) ==
    /\ resp.dataSize # Null
    /\ ParseInt16(resp.dataSize[1]) = Some(byteLength)

\* While the chooser of requestDevice is shown the page gets no click:
\* the user picks a device or dismisses the chooser first.
ChooserClosed ==
    /\ pc # "requestDevice"
    /\ \A k \in DOMAIN others : others[k].pc # "requestDevice"

\* Lines 6-10: a click on the connect button.
ClickConnect ==
    /\ Inactive
    /\ ChooserClosed
    /\ ~ ui.connectDisabled
    /\ CallConnect
    /\ handler' = "connect"
    /\ flowLog' = <<>>
    /\ caught' = Null
    /\ payload' = 0
    /\ UNCHANGED <<others, ui>>

\* The handler ends: the locals of its last call are gone.
HandlerEnds ==
    /\ handler' = "none"
    /\ pc' = "idle"
    /\ op' = "none"
    /\ arg' = Null
    /\ rethrowErrors' = FALSE
    /\ result' = [kind |-> "none"]
    /\ ioLog' = <<>>
    /\ completions' = <<>>
    /\ callAfterNotify' = FALSE
    /\ NoReadFrame
    /\ NoSendFrame
    /\ UNCHANGED <<objVars, usbVars, sessionVars, others, payload>>

\* Lines 10-16: connect of the device returned or threw.
ConnectReturns ==
    /\ handler = "connect"
    /\ pc = "idle"
    /\ flowLog' = flowLog
    /\ IF result.kind = "return"
       THEN /\ ui' = [ui EXCEPT !.connectDisabled = TRUE,
                                     !.unlockDisabled = FALSE,
                                     !.status = "Connected!"]
            /\ caught' = Null
       ELSE /\ ui' = ui
            /\ caught' = Some(result.error)
    /\ HandlerEnds

\* Lines 19-26: a click on the unlock button.
ClickUnlock ==
    /\ Inactive
    /\ ChooserClosed
    /\ ~ ui.unlockDisabled
    /\ ui.unlocks < MaxUnlocks
    /\ ui' = [ui EXCEPT !.unlockDisabled = TRUE, !.status = "Unlocking...",
                        !.unlocks = @ + 1]
    /\ RunCommand(GetIdentifierToken)
    /\ handler' = "unlock"
    /\ flowLog' = <<>>
    /\ caught' = Null
    /\ payload' = 0
    /\ UNCHANGED others

\* The call of the device that is running or just ended, as the flow
\* records it: how it ended, the dataSize it returned, and the bytes of the
\* chunks it wrote.
ThisCall ==
    [op |-> op, arg |-> arg, kind |-> result.kind,
     dataSize |-> IF result.kind = "return" /\ Reading
                  THEN result.value.dataSize
                  ELSE Null,
     written |-> IF op = "sendRawPayload"
                 THEN TotalLength(Payloads(ioLog))
                 ELSE 0]

\* Lines 79-81: an error leaves the try; the handler logs it and ends.
Abort(error) ==
    /\ caught' = Some(error)
    /\ ui' = ui
    /\ HandlerEnds

\* The step after the payload was sent, with line 74 left out.
AfterSendFlashes == RunCommand(FlashingUnlock)

\* Line 74: the step after the payload was sent.
AfterSend == CallReadResponse

(***************************************************************************)
(* unlockBootloader resumes when the call it awaits ended (lines 26-81).   *)
(***************************************************************************)
UnlockResumes ==
    /\ handler = "unlock"
    /\ pc = "idle"
    /\ flowLog' = Append(flowLog, ThisCall)
    /\ LET step == Len(flowLog) + 1 IN
       IF result.kind = "throw" THEN Abort(result.error)
       ELSE IF step = 1
       THEN LET lines == Split(result.value.text) IN
            IF Len(lines) < 3 THEN Abort(TypeError)
            ELSE IF Len(IdentifierOf(lines[3])) > IdentifierDigits
            THEN Abort(FastbootError(FAIL, "Identifier token size overflow"))
            ELSE \E byteLength \in PayloadLengths :
                   IF Len(XferHex(byteLength)) # XferHexDigits
                   THEN Abort(FastbootError(FAIL, "Transfer size overflow"))
                   ELSE /\ payload' = byteLength
                        /\ RunCommand(DownloadPrefix \o XferHex(byteLength))
                        /\ UNCHANGED <<handler, caught, ui, others>>
       ELSE IF step = 2
       THEN IF SizeAccepted(result.value, payload)
            THEN /\ SendRawPayload(payload)
                 /\ UNCHANGED <<handler, caught, ui, others, payload>>
            ELSE Abort(FastbootError(FAIL,
                    IF result.value.dataSize = Null
                    THEN "Unexpected response to download command"
                    ELSE "Bootloader wants a different size"))
       ELSE IF step = 3
       THEN /\ AfterSend
            /\ UNCHANGED <<handler, caught, ui, others, payload>>
       ELSE IF step = 4
       THEN /\ RunCommand(FlashingUnlock)
            /\ UNCHANGED <<handler, caught, ui, others, payload>>
       ELSE /\ caught' = Null
            /\ ui' = [ui EXCEPT !.status = "Unlocked!"]
            /\ HandlerEnds

\* Clicks on the page, completions of the transport, and the event loop.
NextUI ==
    \/ ClickConnect
    \/ ConnectReturns
    \/ ClickUnlock
    \/ UnlockResumes
    \/ RequestDeviceDone /\ UNCHANGED pageVars
    \/ OpenDone /\ UNCHANGED pageVars
    \/ ResetDone /\ UNCHANGED pageVars
    \/ SelectConfigurationDone /\ UNCHANGED pageVars
    \/ ClaimInterfaceDone /\ UNCHANGED pageVars
    \/ CommandTransferOutDone /\ UNCHANGED pageVars
    \/ TransferInDone /\ UNCHANGED pageVars
    \/ ChunkTransferOutDone /\ UNCHANGED pageVars
    \/ Park
    \/ Resume
    \/ Switch

SpecUI == Init /\ [][NextUI]_vars

\* The calls the unlock flow of the running handler made on the device, the
\* one in progress included.
FlowCalls == IF handler = "unlock" THEN Append(flowLog, ThisCall) ELSE flowLog

\* The command is "download:" followed by eight hexadecimal digits whose
\* value is n.
IsDownloadOf(command, n) ==
    /\ Len(command) = 17
    /\ SubSeq(command, 1, 9) = DownloadPrefix
    /\ \A k \in 10..17 : DigitValue(command[k]) < 16
    /\ ParseInt16(SubSeq(command, 10, 17)) = Some(n)

\* The call returned a DATA response whose size, read by parseInt(..., 16),
\* is n.
AnsweredSize(call, n) ==
    /\ call.kind = "return"
    /\ call.dataSize # Null
    /\ ParseInt16(call.dataSize[1]) = Some(n)

\* C14: the unlock flow calls sendRawPayload only as its third call, with
\* the payload, after download:XXXXXXXX (the payload's byte length in eight
\* hexadecimal digits) returned a DATA response whose size, read as
\* hexadecimal, is that length; when download returned without such a size
\* the flow made no further call, wrote no byte of the payload, and ended
\* with a FastbootError.
C14_PayloadOnlyAfterSizeMatch ==
    LET calls == FlowCalls IN
    /\ \A k \in DOMAIN calls :
         calls[k].op = "sendRawPayload" =>
            /\ k = 3
            /\ calls[k].arg.byteLength = payload
            /\ calls[2].op = "runCommand"
            /\ IsDownloadOf(calls[2].arg.command, payload)
            /\ AnsweredSize(calls[2], payload)
    /\ (/\ Len(calls) >= 2
        /\ calls[2].kind = "return"
        /\ ~ AnsweredSize(calls[2], payload)) =>
            /\ Len(calls) = 2
            /\ \A k \in DOMAIN calls : calls[k].written = 0
            /\ handler = "unlock" => pc = "idle"
            /\ handler = "none" =>
                 (caught # Null /\ caught[1].name = "FastbootError")

\* The device answered download:0000002a with "DATA0x2A" and the payload of
\* 42 bytes was sent.
C14_Witness ==
    /\ handler = "none"
    /\ payload = 42
    /\ Len(flowLog) >= 3
    /\ flowLog[2].dataSize = Some(<<48, 120, 50, 65>>)
    /\ flowLog[3].op = "sendRawPayload"
    /\ flowLog[3].kind = "return"
    /\ flowLog[3].written = 42

\* The calls of the unlock flow, in order.
FlowOps ==
    <<"runCommand", "runCommand", "sendRawPayload", "readResponse", "runCommand">>

\* C17: the unlock flow calls, in this order, runCommand of
\* "oem get_identifier_token", runCommand of "download:XXXXXXXX",
\* sendRawPayload, readResponse and runCommand of
\* "flashing unlock_bootloader", each after the one before it returned; the
\* last is called only after sendRawPayload wrote the whole payload and
\* returned and readResponse returned; a call that throws is the last call
\* of the flow, which ends with the error.
C17_UnlockFlowOrder ==
    LET calls == FlowCalls IN
    /\ Len(calls) <= 5
    /\ \A k \in DOMAIN calls :
         /\ calls[k].op = FlowOps[k]
         /\ k < Len(calls) => calls[k].kind = "return"
         /\ calls[k].kind = "throw" => k = Len(calls)
         /\ k = 1 => calls[k].arg.command = GetIdentifierToken
         /\ k = 2 => IsDownloadOf(calls[k].arg.command, payload)
         /\ k = 3 => calls[k].arg.byteLength = payload
         /\ k = 5 =>
              /\ calls[k].arg.command = FlashingUnlock
              /\ calls[3].written = payload
    /\ (handler = "none" /\ calls # <<>> /\ calls[Len(calls)].kind = "throw")
         => caught # Null
    /\ (handler = "none" /\ calls # <<>> /\ caught = Null)
         => (Len(calls) = 5 /\ calls[5].kind = "return")

\* The flow made its five calls and all returned.
C17_Witness ==
    /\ handler = "none"
    /\ caught = Null
    /\ Len(flowLog) = 5
    /\ flowLog[5].kind = "return"
    /\ flowLog[3].written = 42
    /\ ui.status = "Unlocked!"

\* The calls of methods of the device that are in progress.
OperationsInProgress ==
    (IF pc # "idle" THEN 1 ELSE 0)
        + Cardinality({ k \in DOMAIN others : others[k].pc # "idle" })

\* C18: whatever the clicks on the two buttons and the completions of the
\* transport, at most one call of a method of the device is in progress.
C18_OneOperationAtATime == OperationsInProgress <= 1

====
